---------------------------- MODULE Spec2Model ----------------------------
(* A model of pushgo's simplepush edge:                                    *)
(*   net.go     LimitListener / limitConn (bounded accept, close-once)     *)
(*   worker.go  Worker (receive loop, command handlers, flush, watchdog)   *)
(* The listener part and the worker part share the accepted connections:  *)
(* a worker's socket is a limitConn, and closing it releases the count.    *)
EXTENDS Integers, Sequences, FiniteSets, TLC

(***************************************************************************)
(* Bounds of the model.                                                    *)
(***************************************************************************)
MaxSockets == 2        \* sockets the underlying listener can hand out
MaxConns == 1          \* LimitListener.MaxConns

Socks == 1..MaxSockets
Acceptors == {"a1", "a2"}            \* goroutines calling Accept
Closers == {"watchdog", "run"}       \* the two places a Worker closes its socket
LClosers == {"k1", "k2"}             \* goroutines calling LimitListener.Close

VARIABLES
    conns,          \* LimitListener.conns
    closeOnce,      \* LimitListener.closeOnce: [done, lock]
    ulCloseCalls,   \* calls of the underlying Listener.Close
    sockSt,         \* underlying socket: "free" | "open" | "closed"
    added,          \* the socket was returned by LimitListener.Accept
    removeOnce,     \* limitConn.removeOnce is done
    incs, decs,     \* addConn / removeConn calls made for the socket
    acc,            \* per Accept caller: position and outcome of its call
    cl,             \* per socket and closer: position in limitConn.Close
    closeRet,       \* some limitConn.Close call on the socket has returned
    lcl,            \* per listener closer: position in LimitListener.Close
    closeReturned   \* some LimitListener.Close call has returned

lvars == <<conns, closeOnce, ulCloseCalls, sockSt, added, removeOnce, incs,
           decs, acc, cl, closeRet, lcl, closeReturned>>

VARIABLES
    pingRaw,        \* a byte string handed to isPingBody
    pingOut         \* what isPingBody returned for it, once it was called

pvars == <<pingRaw, pingOut>>

\* isPingBody has not been called
NoOut == [called |-> FALSE, ping |-> FALSE, err |-> "nil"]
PIdle == pingRaw = <<>> /\ pingOut = NoOut

(***************************************************************************)
(* net.go: errors                                                          *)
(***************************************************************************)
errTooBusy == [Message |-> "Too many requests", IsTemporary |-> TRUE]
errClosed == [Message |-> "Listener closed", IsTemporary |-> FALSE]
errUnderlying == [Message |-> "underlying accept error", IsTemporary |-> FALSE]
NoErr == [Message |-> "", IsTemporary |-> FALSE]

(***************************************************************************)
(* Once (declared outside the given sources): IsDone reports that Do has   *)
(* run its function; Do runs it at most once, serialising callers.         *)
(***************************************************************************)
OnceIsDone == closeOnce.done

OnceTryLock(k) == /\ closeOnce.lock = "none"
                  /\ closeOnce' = [closeOnce EXCEPT !.lock = k]

OnceFinish(k) == /\ closeOnce.lock = k
                 /\ closeOnce' = [done |-> TRUE, lock |-> "none"]

(***************************************************************************)
(* LimitListener counters                                                  *)
(***************************************************************************)
ConnCount == conns

addConn(s) == /\ conns' = conns + 1
              /\ incs' = [incs EXCEPT ![s] = @ + 1]

removeConn(s) == /\ conns' = conns - 1
                 /\ decs' = [decs EXCEPT ![s] = @ + 1]

\* An Accept call: its position, its result, whether it called the underlying
\* Accept, the socket it got, and whether a Close had returned when it began.
IdleCall == [pc |-> "idle", res |-> "none", err |-> NoErr, ul |-> FALSE,
             afterClose |-> FALSE, s |-> 0]

(***************************************************************************)
(* LimitListener.Accept, one step per shared-memory access.                *)
(***************************************************************************)
\* A faulty order of the two guards: the count is consulted first.
AcceptEnter_CountFirst(a) ==
    /\ acc[a].pc = "idle"
    /\ LET c == [IdleCall EXCEPT !.afterClose = closeReturned]
       IN  acc' = [acc EXCEPT ![a] =
                     IF ConnCount >= MaxConns
                     THEN [c EXCEPT !.res = "err", !.err = errTooBusy]
                     ELSE IF OnceIsDone
                          THEN [c EXCEPT !.res = "err", !.err = errClosed]
                          ELSE [c EXCEPT !.pc = "accept"]]
    /\ UNCHANGED <<conns, closeOnce, ulCloseCalls, sockSt, added, removeOnce,
                   incs, decs, cl, closeRet, lcl, closeReturned>>

\* l.closeOnce.IsDone(): the call starts here.
AcceptEnter(a) ==
    /\ acc[a].pc = "idle"
    /\ LET c == [IdleCall EXCEPT !.afterClose = closeReturned]
       IN  acc' = [acc EXCEPT ![a] =
                     IF OnceIsDone
                     THEN [c EXCEPT !.res = "err", !.err = errClosed]
                     ELSE [c EXCEPT !.pc = "count"]]
    /\ UNCHANGED <<conns, closeOnce, ulCloseCalls, sockSt, added, removeOnce,
                   incs, decs, cl, closeRet, lcl, closeReturned>>

\* A faulty comparison: one connection too many is let through.
AcceptCheckCount_OffByOne(a) ==
    /\ acc[a].pc = "count"
    /\ acc' = [acc EXCEPT ![a] =
                 IF ConnCount > MaxConns
                 THEN [@ EXCEPT !.pc = "idle", !.res = "err",
                                !.err = errTooBusy]
                 ELSE [@ EXCEPT !.pc = "accept"]]
    /\ UNCHANGED <<conns, closeOnce, ulCloseCalls, sockSt, added, removeOnce,
                   incs, decs, cl, closeRet, lcl, closeReturned>>

\* if l.ConnCount() >= l.MaxConns { return nil, errTooBusy }
AcceptCheckCount(a) ==
    /\ acc[a].pc = "count"
    /\ acc' = [acc EXCEPT ![a] =
                 IF ConnCount >= MaxConns
                 THEN [@ EXCEPT !.pc = "idle", !.res = "err",
                                !.err = errTooBusy]
                 ELSE [@ EXCEPT !.pc = "accept"]]
    /\ UNCHANGED <<conns, closeOnce, ulCloseCalls, sockSt, added, removeOnce,
                   incs, decs, cl, closeRet, lcl, closeReturned>>

FreeSocks == {s \in Socks : sockSt[s] = "free"}

\* socket, err := l.Listener.Accept(): a new socket, or an error (always an
\* error once the underlying listener is closed); blocks while no client
\* is waiting.
AcceptUnderlying(a) ==
    /\ acc[a].pc = "accept"
    /\ \/ /\ ulCloseCalls = 0
          /\ FreeSocks # {}
          /\ LET s == CHOOSE x \in FreeSocks : \A y \in FreeSocks : x <= y
             IN  /\ sockSt' = [sockSt EXCEPT ![s] = "open"]
                 /\ acc' = [acc EXCEPT ![a] =
                              [@ EXCEPT !.pc = "add", !.ul = TRUE, !.s = s]]
       \/ /\ acc' = [acc EXCEPT ![a] =
                       [@ EXCEPT !.pc = "idle", !.ul = TRUE, !.res = "err",
                                 !.err = errUnderlying]]
          /\ UNCHANGED sockSt
    /\ UNCHANGED <<conns, closeOnce, ulCloseCalls, added, removeOnce, incs,
                   decs, cl, closeRet, lcl, closeReturned>>

\* l.setKeepAlive(socket); l.addConn(); return &limitConn{...}, nil
AcceptAdd(a) ==
    /\ acc[a].pc = "add"
    /\ addConn(acc[a].s)
    /\ added' = [added EXCEPT ![acc[a].s] = TRUE]
    /\ acc' = [acc EXCEPT ![a] = [@ EXCEPT !.pc = "idle", !.res = "ok"]]
    /\ UNCHANGED <<closeOnce, ulCloseCalls, sockSt, removeOnce, decs, cl,
                   closeRet, lcl, closeReturned>>

(***************************************************************************)
(* limitConn.Close                                                         *)
(***************************************************************************)
\* err := c.Conn.Close()
ConnClose(s, who) ==
    /\ added[s]
    /\ cl[s][who] = "idle"
    /\ sockSt' = [sockSt EXCEPT ![s] = "closed"]
    /\ cl' = [cl EXCEPT ![s][who] = "once"]
    /\ UNCHANGED <<conns, closeOnce, ulCloseCalls, added, removeOnce, incs,
                   decs, acc, closeRet, lcl, closeReturned, pvars>>

\* A Close that calls removeConn without the one-shot latch.
RemoveOnceDo_NoLatch(s) ==
    /\ removeConn(s)
    /\ removeOnce' = [removeOnce EXCEPT ![s] = TRUE]

\* c.removeOnce.Do(c.removeConn)
RemoveOnceDo(s) ==
    IF removeOnce[s]
    THEN UNCHANGED <<conns, decs, removeOnce>>
    ELSE /\ removeConn(s)
         /\ removeOnce' = [removeOnce EXCEPT ![s] = TRUE]

ConnCloseRemove(s, who) ==
    /\ cl[s][who] = "once"
    /\ RemoveOnceDo(s)
    /\ cl' = [cl EXCEPT ![s][who] = "idle"]
    /\ closeRet' = [closeRet EXCEPT ![s] = TRUE]
    /\ UNCHANGED <<closeOnce, ulCloseCalls, sockSt, added, incs, acc, lcl,
                   closeReturned, pvars>>

(***************************************************************************)
(* LimitListener.Close: return l.closeOnce.Do(l.Listener.Close)            *)
(***************************************************************************)
\* A Close that calls the underlying Close directly, without the Once.
ListenerCloseEnter_NoOnce(k) ==
    /\ lcl[k] = "idle"
    /\ ulCloseCalls' = ulCloseCalls + 1
    /\ closeOnce' = [closeOnce EXCEPT !.done = TRUE]
    /\ closeReturned' = TRUE
    /\ UNCHANGED <<conns, sockSt, added, removeOnce, incs, decs, acc, cl,
                   closeRet, lcl>>

\* Do: already done => return at once; otherwise queue for the lock.
ListenerCloseEnter(k) ==
    /\ lcl[k] = "idle"
    /\ IF OnceIsDone
       THEN /\ closeReturned' = TRUE
            /\ UNCHANGED lcl
       ELSE /\ lcl' = [lcl EXCEPT ![k] = "lock"]
            /\ UNCHANGED closeReturned
    /\ UNCHANGED <<conns, closeOnce, ulCloseCalls, sockSt, added, removeOnce,
                   incs, decs, acc, cl, closeRet>>

\* Do, holding the lock: run l.Listener.Close unless another caller did.
ListenerCloseRun(k) ==
    /\ lcl[k] = "lock"
    /\ OnceTryLock(k)
    /\ ulCloseCalls' = IF OnceIsDone THEN ulCloseCalls ELSE ulCloseCalls + 1
    /\ lcl' = [lcl EXCEPT ![k] = "run"]
    /\ UNCHANGED <<conns, sockSt, added, removeOnce, incs, decs, acc, cl,
                   closeRet, closeReturned>>

\* Do: mark done, release the lock, return.
ListenerCloseReturn(k) ==
    /\ lcl[k] = "run"
    /\ OnceFinish(k)
    /\ lcl' = [lcl EXCEPT ![k] = "idle"]
    /\ closeReturned' = TRUE
    /\ UNCHANGED <<conns, ulCloseCalls, sockSt, added, removeOnce, incs, decs,
                   acc, cl, closeRet>>

(***************************************************************************)
(* worker.go: the Worker of one accepted connection.                       *)
(***************************************************************************)
MaxChannels == 1       \* Worker.maxChannels (Store.MaxChannels())
MaxTime == 2           \* the clock runs from 1 to MaxTime
PingInt == 1           \* Worker.pingInt when the rate limit is on
MaxWrites == 2         \* socket writes that can succeed while handling a frame

WSock == 1             \* the Worker's socket: the first connection accepted

VARIABLES
    Uaid,           \* sock.Uaid
    stopped,        \* Worker.stopped
    state,          \* Worker.state
    lastPing,       \* Worker.lastPing (0: the zero time)
    pingInt,        \* Worker.pingInt
    pushLongPongs,  \* app.pushLongPongs
    now,            \* the clock read by time.Now()
    wpc,            \* Run/sniffer position
    wd,             \* idle-hello timer position
    broken,         \* the peer side of the socket has failed
    last            \* what the handling of the last frame did

wvars == <<Uaid, stopped, state, lastPing, pingInt, pushLongPongs, now, wpc,
           wd, broken, last>>

vars == <<lvars, wvars, pvars>>

WorkerInactive == 0
WorkerActive == 1

Nil == "nil"
ErrUnknownCommand == "ErrUnknownCommand"
ErrInvalidCommand == "ErrInvalidCommand"
ErrInvalidParams == "ErrInvalidParams"
ErrNoParams == "ErrNoParams"
ErrInvalidID == "ErrInvalidID"
ErrExistingID == "ErrExistingID"
ErrBadPayload == "ErrBadPayload"
ErrTooManyPings == "ErrTooManyPings"
ErrStore == "ErrStore"               \* an error returned by a Store call
ErrSocket == "ErrSocket"             \* an error returned by Socket.Write

(***************************************************************************)
(* Inbound frames.  raw is the byte string as the classifier sees it, over *)
(* the alphabet { "{", "}", "tab", "cr", "lf", "sp", "x" (any other) };  *)
(* json is its shape for json.Unmarshal into a map; hdr the outcome of     *)
(* decoding RequestHeader; body the outcome of decoding the request struct;*)
(* the rest are the decoded fields.                                        *)
(***************************************************************************)
Min(a, b) == IF a < b THEN a ELSE b

BaseFrame == [raw |-> <<"{", "x", "}">>, json |-> "object", hdr |-> "ok",
              type |-> "", body |-> TRUE, hasUaid |-> FALSE, uaid |-> "",
              chids |-> -1, chid |-> "", upd |-> <<>>, exp |-> <<>>]

SuggestedUaids == {"", "u1", "u2", "bad!"}
ChannelIDs == {"", "c1", "bad!"}

PlainFrames ==
    {[BaseFrame EXCEPT !.raw = r[1], !.json = r[2]] :
        r \in {<< <<>>, "other" >>,                   \* empty frame
               << <<"{", "}">>, "object" >>,          \* {}
               << <<"sp", "{", "}">>, "object" >>,    \* " {}"
               << <<"x">>, "other" >>,                \* one byte
               << <<"sp", "lf">>, "other" >>,         \* white space only
               << <<"{", "{">>, "other" >>,           \* unbalanced
               << <<"{", "}", "{", "}">>, "other" >> }}

UndecodableFrames ==
    {[BaseFrame EXCEPT !.hdr = "type"],                        \* {"messageType":5}
     [BaseFrame EXCEPT !.hdr = "type", !.json = "other",
                       !.raw = <<"x", "x">>],                   \* [1]
     [BaseFrame EXCEPT !.hdr = "syntax", !.json = "other",
                       !.raw = <<"{", "x">>],                   \* {"a"
     [BaseFrame EXCEPT !.json = "null", !.raw = <<"x", "x">>]}  \* null

HelloFrames ==
    {[BaseFrame EXCEPT !.type = ty, !.body = FALSE] : ty \in {"hello"}}
    \cup {[BaseFrame EXCEPT !.type = ty, !.chids = n] :
             ty \in {"hello"}, n \in -1..(MaxChannels + 1)}
    \cup {[BaseFrame EXCEPT !.type = ty, !.hasUaid = TRUE, !.uaid = u,
                            !.chids = n] :
             ty \in {"hello"}, u \in SuggestedUaids,
             n \in -1..(MaxChannels + 1)}
    \cup {[BaseFrame EXCEPT !.type = "HELLO", !.hasUaid = TRUE, !.chids = 0]}

ChannelFrames(ty) ==
    {[BaseFrame EXCEPT !.type = ty, !.body = FALSE]}
    \cup {[BaseFrame EXCEPT !.type = ty, !.chid = c] : c \in ChannelIDs}

AckFrames ==
    {[BaseFrame EXCEPT !.type = "ack", !.body = FALSE]}
    \cup {[BaseFrame EXCEPT !.type = "ack", !.upd = u, !.exp = e] :
             u \in {<<>>, <<"c1">>, <<"c1", "c2">>}, e \in {<<>>, <<"c3">>}}

BareFrames ==
    {[BaseFrame EXCEPT !.type = ty] : ty \in {"ping", "purge", "bogus", ""}}

Frames == PlainFrames \cup UndecodableFrames \cup HelloFrames
          \cup ChannelFrames("register") \cup ChannelFrames("unregister")
          \cup AckFrames \cup BareFrames

\* strings.ToLower on the message types above
ToLower(s) == IF s = "HELLO" THEN "hello" ELSE s

\* id.Valid: the identifier is well formed
Valid(s) == s \in {"u1", "u2", "c1", "c2", "c3", "g1"}

\* id.Generate: a fresh identifier, or the empty string with an error
Generate(ok) == IF ok THEN "g1" ELSE ""

(***************************************************************************)
(* isPingBody                                                              *)
(***************************************************************************)
\* case '\t', '\r', '\n', ' '
Whitespace == {"tab", "cr", "lf", "sp"}

RECURSIVE CountBraces(_, _, _, _)
\* the loop over raw: the brace counts, or "other" at the first other byte
CountBraces(raw, i, l, r) ==
    IF i > Len(raw) THEN [other |-> FALSE, left |-> l, right |-> r]
    ELSE IF raw[i] = "{" THEN CountBraces(raw, i + 1, l + 1, r)
    ELSE IF raw[i] = "}" THEN CountBraces(raw, i + 1, l, r + 1)
    ELSE IF raw[i] \in Whitespace THEN CountBraces(raw, i + 1, l, r)
    ELSE [other |-> TRUE, left |-> l, right |-> r]

\* An isPingBody that takes any balanced run of braces for a ping.
isPingBody_AnyBalanced(raw) ==
    IF Len(raw) < 2 \/ (Len(raw) = 2 /\ raw[1] = "{" /\ raw[2] = "}")
    THEN [ping |-> TRUE, err |-> Nil]
    ELSE LET c == CountBraces(raw, 1, 0, 0)
         IN  IF c.other THEN [ping |-> FALSE, err |-> Nil]
             ELSE IF c.left = c.right
                  THEN [ping |-> TRUE, err |-> Nil]
                  ELSE [ping |-> FALSE, err |-> ErrBadPayload]

isPingBody(raw) ==
    IF Len(raw) < 2 \/ (Len(raw) = 2 /\ raw[1] = "{" /\ raw[2] = "}")
    THEN [ping |-> TRUE, err |-> Nil]
    ELSE LET c == CountBraces(raw, 1, 0, 0)
         IN  IF c.other THEN [ping |-> FALSE, err |-> Nil]
             ELSE IF c.left <= 1 /\ c.left = c.right
                  THEN [ping |-> TRUE, err |-> Nil]
                  ELSE [ping |-> FALSE, err |-> ErrBadPayload]

(***************************************************************************)
(* Outbound frames, Store calls and Router calls                           *)
(***************************************************************************)
Frame(t, ty, st, u, ch, ups, exs) ==
    [t |-> t, type |-> ty, status |-> st, uaid |-> u, chid |-> ch,
     updates |-> ups, expired |-> exs, error |-> Nil]

HelloReply(ty, st, u) == Frame("hello", ty, st, u, "", <<>>, <<>>)
FlushReply(ups, exs) == Frame("notification", "notification", 0, "", "", ups, exs)
RegisterReply(ty, u, ch) == Frame("register", ty, 200, u, ch, <<>>, <<>>)
UnregisterReply(ty, ch) == Frame("unregister", ty, 200, "", ch, <<>>, <<>>)
PingReply(ty) == Frame("ping", ty, 200, "", "", <<>>, <<>>)
EmptyObject == Frame("{}", "", 0, "", "", <<>>, <<>>)
\* the inbound object overlaid with the status and error of e
ErrorReply(ty, e) ==
    [Frame("error", ty, 0, "", "", <<>>, <<>>) EXCEPT !.error = e]

StoreCall(op, u, ch, ok) == [op |-> op, uaid |-> u, chid |-> ch, ok |-> ok]
RouterCall(cmd, u, arg) == [cmd |-> cmd, uaid |-> u, arg |-> arg]

\* What a handler did: its error, the frames it tried to write in order, its
\* Store and Router calls, and the Worker fields it leaves behind.
Outcome(e, tried, store, router, u, stop, st, lp) ==
    [err |-> e, tried |-> tried, store |-> store, router |-> router,
     uaid |-> u, stopped |-> stop, state |-> st, lastPing |-> lp]

\* A return before anything was done.
Fail(e) == Outcome(e, <<>>, <<>>, <<>>, Uaid, stopped, state, lastPing)

\* The results FetchAll can give.
Fetches == {[err |-> TRUE, upd |-> <<>>, exp |-> <<>>]}
           \cup [err : {FALSE}, upd : {<<>>, <<"c2">>}, exp : {<<>>, <<"c3">>}]

(***************************************************************************)
(* Worker.Flush                                                            *)
(***************************************************************************)
\* A Flush that sends its notification frame even when it has nothing in it.
FlushReplies_Always(channel, fetch) ==
    IF channel = "" THEN <<FlushReply(fetch.upd, fetch.exp)>>
    ELSE <<FlushReply(<<channel>>, <<>>)>>

\* the reply Flush builds, if any (worker.go:611-622)
FlushReplies(channel, fetch) ==
    IF channel = ""
    THEN IF Len(fetch.upd) > 0 \/ Len(fetch.exp) > 0
         THEN <<FlushReply(fetch.upd, fetch.exp)>>
         ELSE <<>>
    ELSE <<FlushReply(<<channel>>, <<>>)>>

\* Flush(sock, lastAccessed, channel, version) on a connection whose id is u
Flush(u, channel, fetch) ==
    IF u = ""
    THEN [err |-> Nil, tried |-> <<>>, store |-> <<>>, stop |-> TRUE]
    ELSE IF channel = "" /\ fetch.err
    THEN [err |-> ErrStore, tried |-> <<>>, stop |-> FALSE,
          store |-> <<StoreCall("FetchAll", u, "", FALSE)>>]
    ELSE [err |-> Nil, tried |-> FlushReplies(channel, fetch), stop |-> FALSE,
          store |-> IF channel = ""
                    THEN <<StoreCall("FetchAll", u, "", TRUE)>> ELSE <<>>]

(***************************************************************************)
(* Worker.Hello                                                            *)
(***************************************************************************)
\* Store.Exists
StoreExists(known, u) == u \in known

\* A Hello without the test for an id already bound to the connection.
HelloPath_NoExistingTest(f, clientExists, known) ==
    IF f.uaid = "" THEN "reset"
    ELSE IF ~Valid(f.uaid) THEN "invalid"
    ELSE IF clientExists THEN "reset"
    ELSE IF f.chids > MaxChannels THEN "dropall"
    ELSE IF ~StoreExists(known, Uaid) /\ f.chids > 0 THEN "reset"
    ELSE "accept"

\* A Hello that takes only an identical id, not an omitted one, for a
\* duplicate handshake.
HelloPath_EmptyConflicts(f, clientExists, known) ==
    IF Len(Uaid) > 0
    THEN IF Uaid = f.uaid THEN "duplicate" ELSE "existing"
    ELSE IF Len(f.uaid) = 0 THEN "reset"
    ELSE IF ~Valid(f.uaid) THEN "invalid"
    ELSE IF clientExists THEN "reset"
    ELSE IF f.chids > MaxChannels THEN "dropall"
    ELSE IF ~StoreExists(known, Uaid) /\ f.chids > 0 THEN "reset"
    ELSE "accept"

\* A Hello without the test of the number of channelIDs.
HelloPath_NoChannelLimit(f, clientExists, known) ==
    IF Len(Uaid) > 0
    THEN IF Len(f.uaid) = 0 \/ Uaid = f.uaid THEN "duplicate" ELSE "existing"
    ELSE IF Len(f.uaid) = 0 THEN "reset"
    ELSE IF ~Valid(f.uaid) THEN "invalid"
    ELSE IF clientExists THEN "reset"
    ELSE IF ~StoreExists(known, Uaid) /\ f.chids > 0 THEN "reset"
    ELSE "accept"

\* The branch Hello takes once uaid and channelIDs are known to be present
\* (worker.go:321-374).
HelloPath(f, clientExists, known) ==
    IF Len(Uaid) > 0
    THEN IF Len(f.uaid) = 0 \/ Uaid = f.uaid THEN "duplicate" ELSE "existing"
    ELSE IF Len(f.uaid) = 0 THEN "reset"
    ELSE IF ~Valid(f.uaid) THEN "invalid"
    ELSE IF clientExists THEN "reset"
    ELSE IF f.chids > MaxChannels THEN "dropall"
    ELSE IF ~StoreExists(known, Uaid) /\ f.chids > 0 THEN "reset"
    ELSE "accept"

\* The Store calls made on the way to registerDevice.
HelloStoreCalls(f, path, clientExists, known) ==
    IF path = "dropall" THEN <<StoreCall("DropAll", f.uaid, "", TRUE)>>
    ELSE IF path = "accept" \/ (path = "reset" /\ f.uaid # "" /\ ~clientExists)
    THEN <<StoreCall("Exists", Uaid, "", StoreExists(known, Uaid))>>
    ELSE <<>>

\* A registerDevice that flushes before it writes the hello reply.
registerDevice_FlushBeforeReply(f, path, pre, genOk, status, fetch, b) ==
    LET forceReset == path \in {"reset", "dropall"}
        u0 == IF path = "accept" THEN f.uaid ELSE Uaid
        u == IF forceReset THEN Generate(genOk) ELSE u0
        router == <<RouterCall("HELLO", u, f.chids)>>
        reply == HelloReply(f.type, status, u)
        fl == Flush(u, "", fetch)
    IN  Outcome(IF fl.err # Nil THEN fl.err
                ELSE IF b > Len(fl.tried) THEN Nil ELSE ErrSocket,
                fl.tried \o <<reply>>, pre \o fl.store, router, u,
                stopped \/ fl.stop, WorkerActive, lastPing)

\* registerDevice: (worker.go:376-418); b is the number of socket writes that
\* will succeed.
registerDevice(f, path, pre, genOk, status, fetch, b) ==
    LET forceReset == path \in {"reset", "dropall"}
        u0 == IF path = "accept" THEN f.uaid ELSE Uaid
        u == IF forceReset THEN Generate(genOk) ELSE u0
        router == <<RouterCall("HELLO", u, f.chids)>>
        reply == HelloReply(f.type, status, u)
        fl == Flush(u, "", fetch)
    IN  IF b >= 1
        THEN Outcome(fl.err, <<reply>> \o fl.tried, pre \o fl.store, router, u,
                     stopped \/ fl.stop, WorkerActive, lastPing)
        ELSE Outcome(ErrSocket, <<reply>>, pre, router, u, stopped,
                     WorkerActive, lastPing)

Hello(f, clientExists, known, genOk, status, fetch, b) ==
    IF ~f.body \/ ~f.hasUaid THEN Fail(ErrInvalidParams)
    ELSE IF f.chids < 0 THEN Fail(ErrNoParams)
    ELSE LET path == HelloPath(f, clientExists, known)
         IN  IF path = "existing" THEN Fail(ErrExistingID)
             ELSE IF path = "invalid" THEN Fail(ErrInvalidID)
             ELSE registerDevice(f, path,
                                 HelloStoreCalls(f, path, clientExists, known),
                                 genOk, status, fetch, b)

(***************************************************************************)
(* Worker.Ack, Register, Unregister, Ping, Purge                           *)
(***************************************************************************)
Drops(u, chs, n) == [i \in 1..n |-> StoreCall("Drop", u, chs[i], TRUE)]

\* An Ack that goes on after a failed Drop: it issues the remaining Drops
\* and flushes.
Ack_IgnoresDropError(f, failAt, fetch) ==
    IF Uaid = "" THEN Fail(ErrInvalidCommand)
    ELSE IF ~f.body THEN Fail(ErrInvalidParams)
    ELSE IF Len(f.upd) = 0 THEN Fail(ErrNoParams)
    ELSE LET chs == f.upd \o f.exp
             fl == Flush(Uaid, "", fetch)
         IN  Outcome(fl.err, fl.tried,
                     [i \in 1..Len(chs) |->
                        StoreCall("Drop", Uaid, chs[i], i # failAt)]
                        \o fl.store,
                     <<>>, Uaid, stopped \/ fl.stop, state, lastPing)

\* failAt = 0: every Drop succeeds; failAt = k: the k-th Drop fails.
Ack(f, failAt, fetch) ==
    IF Uaid = "" THEN Fail(ErrInvalidCommand)
    ELSE IF ~f.body THEN Fail(ErrInvalidParams)
    ELSE IF Len(f.upd) = 0 THEN Fail(ErrNoParams)
    ELSE LET chs == f.upd \o f.exp
         IN  IF failAt > 0
             THEN Outcome(ErrStore, <<>>,
                          Drops(Uaid, chs, failAt - 1)
                             \o <<StoreCall("Drop", Uaid, chs[failAt], FALSE)>>,
                          <<>>, Uaid, stopped, state, lastPing)
             ELSE LET fl == Flush(Uaid, "", fetch)
                  IN  Outcome(fl.err, fl.tried,
                              Drops(Uaid, chs, Len(chs)) \o fl.store, <<>>,
                              Uaid, stopped \/ fl.stop, state, lastPing)

\* A Register that passes the Router's status on to the client.
Register_RouterStatus(f, storeOk, status) ==
    IF Uaid = "" THEN Fail(ErrInvalidCommand)
    ELSE IF ~f.body \/ ~Valid(f.chid) THEN Fail(ErrInvalidParams)
    ELSE IF ~storeOk
    THEN Outcome(ErrStore, <<>>, <<StoreCall("Register", Uaid, f.chid, FALSE)>>,
                 <<>>, Uaid, stopped, state, lastPing)
    ELSE Outcome(Nil,
                 <<[RegisterReply(f.type, Uaid, f.chid) EXCEPT
                       !.status = status]>>,
                 <<StoreCall("Register", Uaid, f.chid, TRUE)>>,
                 <<RouterCall("REGIS", Uaid, f.chid)>>,
                 Uaid, stopped, state, lastPing)

\* status is what HandleCommand returned for REGIS; statusCode := 200 is what
\* the reply carries.
Register(f, storeOk, status) ==
    IF Uaid = "" THEN Fail(ErrInvalidCommand)
    ELSE IF ~f.body \/ ~Valid(f.chid) THEN Fail(ErrInvalidParams)
    ELSE IF ~storeOk
    THEN Outcome(ErrStore, <<>>, <<StoreCall("Register", Uaid, f.chid, FALSE)>>,
                 <<>>, Uaid, stopped, state, lastPing)
    ELSE Outcome(Nil, <<RegisterReply(f.type, Uaid, f.chid)>>,
                 <<StoreCall("Register", Uaid, f.chid, TRUE)>>,
                 <<RouterCall("REGIS", Uaid, f.chid)>>,
                 Uaid, stopped, state, lastPing)

\* An Unregister that reports the Store's error to the client.
Unregister_StoreErrorFails(f, storeOk) ==
    IF Uaid = "" THEN Fail(ErrInvalidCommand)
    ELSE IF ~f.body THEN Fail(ErrInvalidParams)
    ELSE IF Len(f.chid) = 0 THEN Fail(ErrNoParams)
    ELSE IF ~storeOk
    THEN Outcome(ErrStore, <<>>,
                 <<StoreCall("Unregister", Uaid, f.chid, FALSE)>>, <<>>,
                 Uaid, stopped, state, lastPing)
    ELSE Outcome(Nil, <<UnregisterReply(f.type, f.chid)>>,
                 <<StoreCall("Unregister", Uaid, f.chid, TRUE)>>, <<>>,
                 Uaid, stopped, state, lastPing)

Unregister(f, storeOk) ==
    IF Uaid = "" THEN Fail(ErrInvalidCommand)
    ELSE IF ~f.body THEN Fail(ErrInvalidParams)
    ELSE IF Len(f.chid) = 0 THEN Fail(ErrNoParams)
    ELSE Outcome(Nil, <<UnregisterReply(f.type, f.chid)>>,
                 <<StoreCall("Unregister", Uaid, f.chid, storeOk)>>, <<>>,
                 Uaid, stopped, state, lastPing)

\* A Ping that lets through a ping arriving exactly one tick short of pingInt.
Ping_ShortInterval(ty) ==
    IF pingInt > 0 /\ lastPing # 0 /\ now - lastPing < pingInt - 1
    THEN Outcome(ErrTooManyPings, <<>>, <<>>, <<>>, Uaid, TRUE, state, lastPing)
    ELSE Outcome(Nil,
                 <<IF pushLongPongs THEN PingReply(ty) ELSE EmptyObject>>,
                 <<>>, <<>>, Uaid, stopped, state, now)

\* ty is header.Type: "ping" for a frame the classifier took for a ping.
Ping(ty) ==
    IF pingInt > 0 /\ lastPing # 0 /\ now - lastPing < pingInt
    THEN Outcome(ErrTooManyPings, <<>>, <<>>, <<>>, Uaid, TRUE, state, lastPing)
    ELSE Outcome(Nil,
                 <<IF pushLongPongs THEN PingReply(ty) ELSE EmptyObject>>,
                 <<>>, <<>>, Uaid, stopped, state, now)

Purge == Outcome(Nil, <<EmptyObject>>, <<>>, <<>>, Uaid, stopped, state,
                 lastPing)

(***************************************************************************)
(* Worker.sniffer and Worker.handleError                                   *)
(***************************************************************************)
Commands == {"ping", "hello", "ack", "register", "unregister", "purge"}

\* Where a frame goes: dropped, rejected by the classifier, undecodable, or
\* the case of the switch it reaches.
Route(f) ==
    IF Len(f.raw) <= 0 THEN "empty"
    ELSE IF isPingBody(f.raw).err # Nil THEN "badpayload"
    ELSE IF isPingBody(f.raw).ping THEN "ping"
    ELSE IF f.hdr # "ok" THEN "undecodable"
    ELSE IF ToLower(f.type) \in Commands THEN ToLower(f.type)
    ELSE "default"

HeaderType(f) == IF isPingBody(f.raw).ping THEN "ping" ELSE f.type

\* the number of socket writes that succeed during this handling
Budget(wr) == IF sockSt[WSock] = "open" /\ ~broken THEN wr ELSE 0

\* The answers the collaborators gave while a frame was handled, where they
\* were asked: app.ClientExists, the ids the Store holds, id.Generate,
\* the Router's status, Store.FetchAll.
NoFetch == [err |-> FALSE, upd |-> <<>>, exp |-> <<>>]
NoEnv == [clientExists |-> FALSE, known |-> {}, genOk |-> TRUE, status |-> 200,
          fetch |-> NoFetch]

\* the handler called Store.FetchAll
Fetched(o) == \E i \in 1..Len(o.store) : o.store[i].op = "FetchAll"

NoLast == [h |-> "none", f |-> BaseFrame, pre |-> "", err |-> Nil,
           tried |-> <<>>, sent |-> <<>>, store |-> <<>>, router |-> <<>>,
           env |-> NoEnv]

\* handleError: the envelope it tries to send; a JSON null leaves a nil map,
\* and the assignment to it panics.
Envelope(f, e) == IF f.json = "object" THEN <<ErrorReply(f.type, e)>> ELSE <<>>
EnvelopePanics(f) == f.json = "null"

\* The rest of the loop body after the handler of case h returned o
\* (worker.go:205-213), with the writes that got through.
FinishEnv(f, h, o, b, env) ==
    LET failed == o.err # Nil
        panics == failed /\ EnvelopePanics(f)
        tried == o.tried \o (IF failed THEN Envelope(f, o.err) ELSE <<>>)
    IN  /\ Uaid' = o.uaid
        /\ state' = o.state
        /\ lastPing' = o.lastPing
        /\ stopped' = (o.stopped \/ (failed /\ ~panics))
        /\ wpc' = IF panics THEN "panic" ELSE "loop"
        /\ broken' = (broken \/ Len(tried) > b)
        /\ last' = [h |-> h, f |-> f, pre |-> Uaid, err |-> o.err,
                    tried |-> tried,
                    sent |-> SubSeq(tried, 1, Min(b, Len(tried))),
                    store |-> o.store, router |-> o.router,
                    env |-> [env EXCEPT
                               !.fetch = IF Fetched(o) THEN @ ELSE NoFetch]]
        /\ UNCHANGED <<lvars, pvars, pingInt, pushLongPongs, now, wd>>

Finish(f, h, o, b) == FinishEnv(f, h, o, b, NoEnv)

\* A receive loop that does not look at stopped.
ShouldStop_Never == FALSE

\* if self.stopped { return }
ShouldStop == stopped

\* websocket.Message.Receive returned a frame
Receive ==
    /\ wpc = "loop" /\ ~ShouldStop
    /\ sockSt[WSock] = "open" /\ ~broken
    /\ wpc' = "handle"
    /\ last' = NoLast
    /\ UNCHANGED <<lvars, pvars, Uaid, stopped, state, lastPing, pingInt,
                   pushLongPongs, now, wd, broken>>

\* websocket.Message.Receive returned an error
ReceiveError ==
    /\ wpc = "loop" /\ ~ShouldStop
    /\ stopped' = TRUE
    /\ last' = NoLast
    /\ UNCHANGED <<lvars, pvars, Uaid, state, lastPing, pingInt, pushLongPongs, now,
                   wpc, wd, broken>>

\* the loop finds stopped set and sniffer returns to Run
SnifferReturn ==
    /\ wpc = "loop" /\ ShouldStop
    /\ wpc' = "close"
    /\ last' = NoLast
    /\ UNCHANGED <<lvars, pvars, Uaid, stopped, state, lastPing, pingInt,
                   pushLongPongs, now, wd, broken>>

\* if len(raw) <= 0 { continue }
DropEmpty ==
    /\ wpc = "handle"
    /\ \E f \in Frames :
          /\ Route(f) = "empty"
          /\ wpc' = "loop"
          /\ last' = [NoLast EXCEPT !.h = "empty", !.f = f, !.pre = Uaid]
    /\ UNCHANGED <<lvars, pvars, Uaid, stopped, state, lastPing, pingInt,
                   pushLongPongs, now, wd, broken>>

\* isPingBody returned ErrBadPayload
RejectBadPayload ==
    /\ wpc = "handle"
    /\ \E f \in Frames :
          /\ Route(f) = "badpayload"
          /\ Finish(f, "badpayload",
                    [Fail(Nil) EXCEPT !.stopped = TRUE], 0)

\* A receive loop that goes on reading after a header failed to decode.
RejectUndecodable_NoStop ==
    /\ wpc = "handle"
    /\ \E f \in Frames, wr \in 0..MaxWrites :
          /\ Route(f) = "undecodable"
          /\ LET tried == IF f.hdr = "type"
                          THEN Envelope(f, ErrUnknownCommand) ELSE <<>>
                 b == Budget(wr)
             IN  /\ stopped' = stopped
                 /\ wpc' = "loop"
                 /\ broken' = (broken \/ Len(tried) > b)
                 /\ last' = [NoLast EXCEPT
                               !.h = "undecodable", !.f = f, !.pre = Uaid,
                               !.tried = tried,
                               !.sent = SubSeq(tried, 1, Min(b, Len(tried)))]
    /\ UNCHANGED <<lvars, pvars, Uaid, state, lastPing, pingInt, pushLongPongs, now,
                   wd>>

\* json.Unmarshal(raw, header) failed: an unknown-command envelope for a type
\* error, nothing for a syntax error
RejectUndecodable ==
    /\ wpc = "handle"
    /\ \E f \in Frames, wr \in 0..MaxWrites :
          /\ Route(f) = "undecodable"
          /\ LET tried == IF f.hdr = "type"
                          THEN Envelope(f, ErrUnknownCommand) ELSE <<>>
                 b == Budget(wr)
             IN  /\ stopped' = TRUE
                 /\ wpc' = "loop"
                 /\ broken' = (broken \/ Len(tried) > b)
                 /\ last' = [NoLast EXCEPT
                               !.h = "undecodable", !.f = f, !.pre = Uaid,
                               !.tried = tried,
                               !.sent = SubSeq(tried, 1, Min(b, Len(tried)))]
    /\ UNCHANGED <<lvars, pvars, Uaid, state, lastPing, pingInt, pushLongPongs, now,
                   wd>>

DoPing ==
    /\ wpc = "handle"
    /\ \E f \in Frames, wr \in 0..MaxWrites :
          /\ Route(f) = "ping"
          /\ Finish(f, "ping", Ping(HeaderType(f)), Budget(wr))

\* The collaborators' answers are drawn only where Hello asks for them:
\* app.ClientExists, Store.Exists (known: the ids the Store holds),
\* id.Generate, the Router's status, Store.FetchAll.
DoHello ==
    /\ wpc = "handle"
    /\ \E f \in Frames, wr \in 0..MaxWrites :
          /\ Route(f) = "hello"
          /\ LET parsed == f.body /\ f.hasUaid /\ f.chids >= 0
                 fresh == parsed /\ Uaid = "" /\ Valid(f.uaid)
             IN
             \E clientExists \in IF fresh THEN BOOLEAN ELSE {FALSE} :
             \E known \in IF fresh /\ ~clientExists /\ f.chids <= MaxChannels
                           THEN SUBSET {"u1"} ELSE {{}} :
             LET path == HelloPath(f, clientExists, known)
                 goes == parsed /\ path \notin {"existing", "invalid"}
             IN
             \E genOk \in IF goes /\ path \in {"reset", "dropall"}
                           THEN BOOLEAN ELSE {TRUE} :
             \E status \in IF goes THEN {200, 503} ELSE {200} :
             \E fetch \in IF goes /\ Budget(wr) >= 1 THEN Fetches
                           ELSE {NoFetch} :
                FinishEnv(f, "hello",
                          Hello(f, clientExists, known, genOk, status, fetch,
                                Budget(wr)),
                          Budget(wr),
                          [clientExists |-> clientExists, known |-> known,
                           genOk |-> genOk, status |-> status,
                           fetch |-> fetch])

DoAck ==
    /\ wpc = "handle"
    /\ \E f \in Frames, wr \in 0..MaxWrites, fetch \in Fetches :
          /\ Route(f) = "ack"
          /\ \E failAt \in 0..(Len(f.upd) + Len(f.exp)) :
                FinishEnv(f, "ack", Ack(f, failAt, fetch), Budget(wr),
                          [NoEnv EXCEPT !.fetch = fetch])

DoRegister ==
    /\ wpc = "handle"
    /\ \E f \in Frames, wr \in 0..MaxWrites, storeOk \in BOOLEAN :
          /\ Route(f) = "register"
          /\ \E status \in IF Uaid # "" /\ f.body /\ Valid(f.chid) /\ storeOk
                            THEN {200, 503} ELSE {200} :
                FinishEnv(f, "register", Register(f, storeOk, status),
                          Budget(wr), [NoEnv EXCEPT !.status = status])

DoUnregister ==
    /\ wpc = "handle"
    /\ \E f \in Frames, wr \in 0..MaxWrites, storeOk \in BOOLEAN :
          /\ Route(f) = "unregister"
          /\ Finish(f, "unregister", Unregister(f, storeOk), Budget(wr))

DoPurge ==
    /\ wpc = "handle"
    /\ \E f \in Frames, wr \in 0..MaxWrites :
          /\ Route(f) = "purge"
          /\ Finish(f, "purge", Purge, Budget(wr))

\* default: err = ErrUnknownCommand
DoUnknown ==
    /\ wpc = "handle"
    /\ \E f \in Frames, wr \in 0..MaxWrites :
          /\ Route(f) = "default"
          /\ Finish(f, "default", Fail(ErrUnknownCommand), Budget(wr))

\* The handlers that begin with defer func() { if r := recover(); r != nil
\* { ...; err = ErrInvalidParams } }(); Ping and Purge have no such scope.
Recovers(h) == h \in {"hello", "ack", "register", "unregister"}

\* A runtime failure (a panic: a nil dereference, a failing collaborator) is
\* raised in the handler the frame was dispatched to, before the handler
\* has changed anything.  A handler with a recovery scope returns
\* ErrInvalidParams to the loop; from a handler without one the panic
\* passes through sniffer to the deferred recover of Run.
DoFault ==
    /\ wpc = "handle"
    /\ \E f \in Frames, wr \in 0..MaxWrites :
          /\ Route(f) \in Commands
          /\ IF Recovers(Route(f))
             THEN Finish(f, "fault", Fail(ErrInvalidParams), Budget(wr))
             ELSE /\ wr = 0
                  /\ wpc' = "panic"
                  /\ last' = [NoLast EXCEPT !.h = "fault", !.f = f,
                                             !.pre = Uaid]
                  /\ UNCHANGED <<lvars, pvars, Uaid, stopped, state, lastPing,
                                 pingInt, pushLongPongs, now, wd, broken>>

(***************************************************************************)
(* Worker.Run: the idle-hello timer, and the close after sniffer returns   *)
(* or after a panic reached the deferred recover.                          *)
(***************************************************************************)
\* A timer whose function never closes the socket.
WatchdogFire_NeverCloses ==
    /\ wd = "armed"
    /\ wd' = "done"
    /\ UNCHANGED <<lvars, pvars, Uaid, stopped, state, lastPing, pingInt,
                   pushLongPongs, now, wpc, broken, last>>

\* The values the timer's goroutine can read from sock.Uaid.  The read is
\* not ordered with Hello's assignment (no lock, channel or atomic between
\* the two goroutines), so it yields the value assigned or the initial one.
RacyUaid == {Uaid, ""}

\* the timer fires: if sock.Uaid == "" { sock.Socket.Close() }
WatchdogFire ==
    /\ wd = "armed"
    /\ \E seen \in RacyUaid : wd' = IF seen = "" THEN "close" ELSE "done"
    /\ UNCHANGED <<lvars, pvars, Uaid, stopped, state, lastPing, pingInt,
                   pushLongPongs, now, wpc, broken, last>>

WatchdogClose ==
    /\ wd = "close"
    /\ ConnClose(WSock, "watchdog")
    /\ wd' = "closing"
    /\ UNCHANGED <<Uaid, stopped, state, lastPing, pingInt, pushLongPongs, now,
                   wpc, broken, last>>

WatchdogClosed ==
    /\ wd = "closing"
    /\ ConnCloseRemove(WSock, "watchdog")
    /\ wd' = "done"
    /\ UNCHANGED <<Uaid, stopped, state, lastPing, pingInt, pushLongPongs, now,
                   wpc, broken, last>>

RunClose ==
    /\ wpc \in {"close", "panic"}
    /\ ConnClose(WSock, "run")
    /\ wpc' = "closing"
    /\ UNCHANGED <<Uaid, stopped, state, lastPing, pingInt, pushLongPongs, now,
                   wd, broken, last>>

RunClosed ==
    /\ wpc = "closing"
    /\ ConnCloseRemove(WSock, "run")
    /\ wpc' = "done"
    /\ UNCHANGED <<Uaid, stopped, state, lastPing, pingInt, pushLongPongs, now,
                   wd, broken, last>>

\* time passes
Tick ==
    /\ now < MaxTime
    /\ now' = now + 1
    /\ UNCHANGED <<lvars, pvars, Uaid, stopped, state, lastPing, pingInt,
                   pushLongPongs, wpc, wd, broken, last>>

\* NewWorker, on the first connection the listener accepted
WInit ==
    /\ conns = 1
    /\ closeOnce = [done |-> FALSE, lock |-> "none"]
    /\ ulCloseCalls = 0
    /\ sockSt = [s \in Socks |-> IF s = WSock THEN "open" ELSE "free"]
    /\ added = [s \in Socks |-> s = WSock]
    /\ removeOnce = [s \in Socks |-> FALSE]
    /\ incs = [s \in Socks |-> IF s = WSock THEN 1 ELSE 0]
    /\ decs = [s \in Socks |-> 0]
    /\ acc = [a \in Acceptors |-> IdleCall]
    /\ cl = [s \in Socks |-> [w \in Closers |-> "idle"]]
    /\ closeRet = [s \in Socks |-> FALSE]
    /\ lcl = [k \in LClosers |-> "idle"]
    /\ closeReturned = FALSE
    /\ Uaid = ""
    /\ stopped = FALSE
    /\ state = WorkerActive
    /\ lastPing = 0
    /\ pingInt \in {0, PingInt}
    /\ pushLongPongs \in BOOLEAN
    /\ now = 1
    /\ wpc = "loop"
    /\ wd = "armed"
    /\ broken = FALSE
    /\ last = NoLast
    /\ PIdle

WNext ==
    \/ Receive \/ ReceiveError \/ SnifferReturn
    \/ DropEmpty \/ RejectBadPayload \/ RejectUndecodable
    \/ DoPing \/ DoHello \/ DoAck \/ DoRegister \/ DoUnregister \/ DoPurge
    \/ DoUnknown \/ DoFault
    \/ WatchdogFire \/ WatchdogClose \/ WatchdogClosed
    \/ RunClose \/ RunClosed
    \/ Tick

WSpec == WInit /\ [][WNext]_vars

\* The steps the worker and the timer take on their own: the timer fires and
\* its function runs to its end; a frame that was read is handled; a read on
\* a closed socket returns an error; sniffer and Run run to their ends.  No
\* fairness for the peer: it need not send anything, and need not break
\* the connection.
Handle ==
    \/ DropEmpty \/ RejectBadPayload \/ RejectUndecodable
    \/ DoPing \/ DoHello \/ DoAck \/ DoRegister \/ DoUnregister \/ DoPurge
    \/ DoUnknown \/ DoFault

ReadOnClosed == ReceiveError /\ sockSt[WSock] # "open"

\* the timer's goroutine, and the goroutine of Run; in each, at most one of
\* the steps is enabled at a time
TimerSteps == WatchdogFire \/ WatchdogClose \/ WatchdogClosed
RunSteps == ReadOnClosed \/ SnifferReturn \/ RunClose \/ RunClosed

\* Handle is enabled exactly while wpc = "handle" and every Handle step
\* leaves that position, so weak fairness of Handle is []<>(wpc # "handle").
WFair ==
    /\ WF_vars(TimerSteps) /\ WF_vars(RunSteps)
    /\ []<>(wpc # "handle")

WLive == WSpec /\ WFair

(***************************************************************************)
(* The listener on its own: Accept callers, listener closers, and, for     *)
(* every accepted connection, the two closers of its worker.               *)
(***************************************************************************)
ListenerInit ==
    /\ conns = 0
    /\ closeOnce = [done |-> FALSE, lock |-> "none"]
    /\ ulCloseCalls = 0
    /\ sockSt = [s \in Socks |-> "free"]
    /\ added = [s \in Socks |-> FALSE]
    /\ removeOnce = [s \in Socks |-> FALSE]
    /\ incs = [s \in Socks |-> 0]
    /\ decs = [s \in Socks |-> 0]
    /\ acc = [a \in Acceptors |-> IdleCall]
    /\ cl = [s \in Socks |-> [w \in Closers |-> "idle"]]
    /\ closeRet = [s \in Socks |-> FALSE]
    /\ lcl = [k \in LClosers |-> "idle"]
    /\ closeReturned = FALSE

\* a Worker that takes no step
WorkerIdle ==
    /\ Uaid = "" /\ stopped = FALSE /\ state = WorkerActive
    /\ lastPing = 0 /\ pingInt = 0 /\ pushLongPongs = FALSE /\ now = 1
    /\ wpc = "loop" /\ wd = "armed" /\ broken = FALSE /\ last = NoLast

LInit == ListenerInit /\ WorkerIdle /\ PIdle

LNext ==
    \/ \E a \in Acceptors : AcceptEnter(a)
    \/ \E a \in Acceptors : AcceptCheckCount(a)
    \/ \E a \in Acceptors : AcceptUnderlying(a)
    \/ \E a \in Acceptors : AcceptAdd(a)
    \/ \E s \in Socks, w \in Closers : ConnClose(s, w)
    \/ \E s \in Socks, w \in Closers : ConnCloseRemove(s, w)
    \/ \E k \in LClosers : ListenerCloseEnter(k)
    \/ \E k \in LClosers : ListenerCloseRun(k)
    \/ \E k \in LClosers : ListenerCloseReturn(k)

LSpec == LInit /\ [][LNext /\ UNCHANGED <<wvars, pvars>>]_vars

(***************************************************************************)
(* isPingBody on its own: every byte string of 1 to MaxLen bytes over the  *)
(* seven kinds of byte the function tells apart.                           *)
(***************************************************************************)
MaxLen == 4

Bytes == {"{", "}", "x"} \cup Whitespace
RawFrames == UNION {[1..n -> Bytes] : n \in 1..MaxLen}

\* isPing, err := isPingBody(raw)
CallIsPingBody ==
    /\ ~pingOut.called
    /\ pingOut' = [called |-> TRUE, ping |-> isPingBody(pingRaw).ping,
                    err |-> isPingBody(pingRaw).err]
    /\ UNCHANGED <<lvars, wvars, pingRaw>>

PInit == ListenerInit /\ WorkerIdle /\ pingRaw \in RawFrames /\ pingOut = NoOut
PNext == CallIsPingBody
PSpec == PInit /\ [][PNext]_vars

(***************************************************************************)
(* Claims about the listener                                               *)
(***************************************************************************)
OpenSocks == {s \in Socks : sockSt[s] = "open"}
LiveAccepted == {s \in Socks : added[s] /\ sockSt[s] = "open"}
NoCloseBegun(s) == ~closeRet[s] /\ \A w \in Closers : cl[s][w] = "idle"

\* C1: every connection Accept returned was counted once, and is uncounted
\* exactly once however often and from wherever Close is called on it: no
\* decrement before the first Close, one after a Close has returned, never two.
C1_CountedOnceUncountedOnce ==
    \A s \in Socks :
       /\ incs[s] = (IF added[s] THEN 1 ELSE 0)
       /\ decs[s] <= 1
       /\ NoCloseBegun(s) => decs[s] = 0
       /\ closeRet[s] => decs[s] = 1

\* One Close has returned and both closers are inside a further Close.
C1_Witness ==
    \E s \in Socks : /\ closeRet[s]
                     /\ \A w \in Closers : cl[s][w] = "once"
                     /\ decs[s] = 1

\* C2: at most MaxConns connections are accepted and not yet closed.
C2_AtMostMaxConnsLive == Cardinality(LiveAccepted) <= MaxConns

\* C3 as stated: the counter equals the number of accepted, un-closed
\* sockets in every state.
C3_CounterEqualsOpenAlways == conns = Cardinality(OpenSocks)

InAcceptWindow == {a \in Acceptors : acc[a].pc = "add"}
InCloseWindow == {s \in Socks : sockSt[s] = "closed" /\ ~removeOnce[s]}

\* C3 amended: the counter lags the sockets only inside the two windows:
\* it equals the un-closed accepted sockets, less those accepted but not yet
\* counted, plus those closed but not yet uncounted; outside the windows the
\* two numbers are equal.
C3_CounterEqualsOpenOutsideWindows ==
    /\ conns = Cardinality(OpenSocks) - Cardinality(InAcceptWindow)
                 + Cardinality(InCloseWindow)
    /\ (InAcceptWindow = {} /\ InCloseWindow = {})
          => conns = Cardinality(OpenSocks)

\* One connection is closed but still counted while no Accept is in its
\* window: the counter is one above the un-closed sockets.
C3_Witness == /\ InAcceptWindow = {}
              /\ InCloseWindow # {}
              /\ conns = Cardinality(OpenSocks) + 1

\* C4: an Accept that finds the listener open and the count at MaxConns
\* returns the temporary error "Too many requests", without an underlying
\* accept and without touching the count.
C4_TooBusyWhenFull ==
    [][\A a \in Acceptors :
         (acc[a].pc = "count" /\ acc'[a] # acc[a]
              /\ ~OnceIsDone /\ ConnCount >= MaxConns)
         => /\ acc'[a].pc = "idle"
            /\ acc'[a].res = "err"
            /\ acc'[a].err.Message = "Too many requests"
            /\ acc'[a].err.IsTemporary
            /\ ~acc'[a].ul /\ acc'[a].s = 0
            /\ conns' = conns /\ sockSt' = sockSt /\ incs' = incs]_vars

C4_Witness ==
    \E a \in Acceptors : /\ acc[a].err = errTooBusy
                         /\ acc[a].pc = "idle"
                         /\ ~OnceIsDone
                         /\ conns = MaxConns

\* C5: an Accept that starts after a LimitListener.Close has returned gets
\* the permanent error "Listener closed" (not "Too many requests", full or
\* not), makes no underlying accept and leaves the count alone.
C5_ClosedAfterClose ==
    \A a \in Acceptors :
       acc[a].afterClose
       => /\ acc[a].pc = "idle"
          /\ acc[a].res = "err"
          /\ acc[a].err.Message = "Listener closed"
          /\ ~acc[a].err.IsTemporary
          /\ ~acc[a].ul /\ acc[a].s = 0

C5_Witness ==
    \E a \in Acceptors : /\ acc[a].afterClose
                         /\ acc[a].err = errClosed
                         /\ conns >= MaxConns

\* C6: however many LimitListener.Close calls are made, in sequence or at
\* once, the underlying listener is closed at most once, and exactly once
\* as soon as one of the calls has returned.
C6_UnderlyingClosedOnce ==
    /\ ulCloseCalls <= 1
    /\ closeReturned => ulCloseCalls = 1

\* A Close has returned, and two further calls are in flight.
C6_Witness == /\ closeReturned
              /\ \A k \in LClosers : lcl[k] = "idle"
              /\ ulCloseCalls = 1

(***************************************************************************)
(* Claims about the worker                                                 *)
(***************************************************************************)
Sent(kind) == {i \in 1..Len(last.sent) : last.sent[i].t = kind}
OnlyErrorsSent == \A i \in 1..Len(last.sent) : last.sent[i].t = "error"
FetchFailed == \E i \in 1..Len(last.store) :
                  last.store[i].op = "FetchAll" /\ ~last.store[i].ok

\* C7: on a connection without a DeviceID, register, unregister, ack and
\* purge each return the invalid-command error, send no success reply and
\* call neither the Store nor the Router.
C7_AnonymousOnlyHelloOrPing ==
    (last.pre = "" /\ last.h \in {"register", "unregister", "ack", "purge"})
    => /\ last.err = ErrInvalidCommand
       /\ OnlyErrorsSent
       /\ last.store = <<>>
       /\ last.router = <<>>

\* C8: once the connection's DeviceID is non-empty it never changes,
\* whatever frames follow.
C8_DeviceIDNeverChanges == [][Uaid # "" => Uaid' = Uaid]_vars

\* A hello suggesting another id was handled on a connection that has one.
C8_Witness ==
    /\ last.h = "hello" /\ last.pre # ""
    /\ last.f.hasUaid /\ last.f.uaid \notin {"", last.pre}
    /\ last.f.chids > MaxChannels
    /\ Uaid = last.pre

ReHello == /\ last.h = "hello" /\ last.pre # ""
           /\ last.f.body /\ last.f.hasUaid /\ last.f.chids >= 0

\* C9 as stated: a well-formed hello on a connection that has DeviceID D
\* succeeds and replies with uaid = D when it suggests nothing or D, and
\* fails with existing-id, without reply or Router call, when it suggests
\* another id.
C9_ReHelloSucceedsOrExistingID ==
    ReHello =>
       IF last.f.uaid \in {"", last.pre}
       THEN /\ last.err = Nil
            /\ \E i \in Sent("hello") : last.sent[i].uaid = last.pre
       ELSE /\ last.err = ErrExistingID
            /\ Sent("hello") = {}
            /\ last.router = <<>>

\* C9 amended: such a hello keeps D, tells the Router HELLO for D and writes
\* the reply with uaid = D; it returns no error exactly when that write and
\* the flush's Store.FetchAll both succeed, the write's error when the write
\* fails (then nothing is fetched), the Store's error when FetchAll fails.
\* With another id suggested it fails with existing-id, writes no hello
\* reply and calls neither the Router nor the Store.
C9_ReHelloKeepsID ==
    ReHello =>
       IF last.f.uaid \in {"", last.pre}
       THEN /\ Uaid = last.pre
            /\ last.router = <<RouterCall("HELLO", last.pre, last.f.chids)>>
            /\ last.err \in {Nil, ErrSocket, ErrStore}
            /\ last.err = ErrSocket <=> Sent("hello") = {}
            /\ last.err = ErrSocket => last.store = <<>>
            /\ last.err = ErrStore <=> FetchFailed
            /\ \A i \in Sent("hello") :
                  i = 1 /\ last.sent[i].uaid = last.pre
       ELSE /\ last.err = ErrExistingID
            /\ Uaid = last.pre
            /\ Sent("hello") = {}
            /\ last.router = <<>>
            /\ last.store = <<>>

\* A second hello that omits the id was answered with the id of the first.
C9_Witness ==
    /\ ReHello /\ last.f.uaid = "" /\ last.pre = "u1"
    /\ last.err = Nil
    /\ Len(last.sent) >= 1 /\ last.sent[1] = HelloReply("hello", 200, "u1")

\* C10: stopped is a latch: once set it stays set and no further frame is
\* read; a frame that is about to be dispatched was read with stopped false.
C10_StoppedLatch ==
    /\ [](wpc = "handle" => ~stopped)
    /\ [][stopped => /\ stopped'
                     /\ ~(wpc = "loop" /\ wpc' = "handle")
                     /\ wpc \notin {"close", "closing", "done"}
                           \/ wpc' \in {"close", "closing", "done"}]_vars

\* A hello whose forced reset got no identifier: the flush found the
\* connection anonymous and set stopped, and Hello returned no error.
C10_Witness ==
    /\ stopped /\ last.h = "hello" /\ last.err = Nil /\ Uaid = ""

Pongs(s) == {i \in 1..Len(s) : s[i].t \in {"ping", "{}"}}

\* C11: lastPing is the time of the last ping accepted on the connection
\* (it moves only when a ping is accepted, to the time of that ping); with
\* pingInt > 0, a ping that arrives less than pingInt after it is rejected
\* with too-many-pings, gets no pong, leaves lastPing alone and stops the
\* connection.
C11_PingRateLimit ==
    [][/\ lastPing' # lastPing
            => /\ wpc = "handle" /\ last'.h = "ping" /\ last'.err = Nil
               /\ lastPing' = now
       /\ (wpc = "handle" /\ last'.h = "ping"
              /\ pingInt > 0 /\ lastPing # 0 /\ now - lastPing < pingInt)
            => /\ last'.err = ErrTooManyPings
               /\ Pongs(last'.tried) = {}
               /\ lastPing' = lastPing
               /\ stopped']_vars

\* A second heartbeat came in the tick of an accepted one and was rejected.
C11_Witness ==
    /\ last.h = "ping" /\ last.err = ErrTooManyPings
    /\ pingInt > 0 /\ lastPing = now
    /\ stopped /\ Pongs(last.sent) = {}

\* C12: an unregister with a non-empty channelID on a connection that has a
\* DeviceID calls Store.Unregister once and, whatever the Store answers,
\* sends the reply with status 200 for that channel, returns no error and
\* leaves the connection running.
C12_UnregisterAlways200 ==
    (last.h = "unregister" /\ last.pre # "" /\ last.f.body
        /\ last.f.chid # "")
    => /\ last.err = Nil
       /\ last.tried = <<UnregisterReply(last.f.type, last.f.chid)>>
       /\ last.tried[1].status = 200
       /\ Len(last.store) = 1
       /\ last.store[1].op = "Unregister"
       /\ last.store[1].uaid = last.pre /\ last.store[1].chid = last.f.chid
       /\ ~stopped /\ wpc = "loop"

\* The Store failed to unregister and the client got status 200.
C12_Witness ==
    /\ last.h = "unregister" /\ last.pre # "" /\ last.f.chid # ""
    /\ Len(last.store) = 1 /\ ~last.store[1].ok
    /\ last.err = Nil
    /\ last.sent = <<UnregisterReply("unregister", last.f.chid)>>

\* A hello on a connection without a DeviceID, suggesting a well-formed id
\* that no client of this process holds.
FreshHello ==
    /\ last.h = "hello" /\ last.pre = ""
    /\ last.f.body /\ last.f.hasUaid /\ Valid(last.f.uaid)
    /\ ~last.env.clientExists

\* C13: such a hello with between 1 and maxChannels channelIDs is reset to
\* a fresh DeviceID exactly when the Store does not hold the suggested id;
\* when the Store holds it, the connection takes the suggested id and the
\* hello reply carries it.
C13_ResetIffStoreLacksSuggested ==
    (FreshHello /\ last.f.chids >= 1 /\ last.f.chids <= MaxChannels)
    => /\ Uaid # last.f.uaid <=> last.f.uaid \notin last.env.known
       /\ last.f.uaid \in last.env.known
            => /\ Uaid = last.f.uaid
               /\ last.tried[1].t = "hello"
               /\ last.tried[1].uaid = last.f.uaid

DropAlls == {i \in 1..Len(last.store) : last.store[i].op = "DropAll"}

\* C14: a hello on a connection without a DeviceID that suggests a
\* well-formed id U no local client holds, with more than maxChannels
\* channelIDs, calls Store.DropAll(U) exactly once, and its reply carries
\* the id id.Generate returned, which is not U; no other hello calls DropAll.
C14_DropAllOnTooManyChannels ==
    last.h = "hello" =>
       IF FreshHello /\ last.f.chids > MaxChannels
       THEN /\ Cardinality(DropAlls) = 1
            /\ \A i \in DropAlls : last.store[i].uaid = last.f.uaid
            /\ last.tried[1].t = "hello"
            /\ last.tried[1].uaid = Generate(last.env.genOk)
            /\ last.tried[1].uaid # last.f.uaid
            /\ Uaid = last.tried[1].uaid
       ELSE DropAlls = {}

\* The client received a generated id after suggesting one with too many
\* channels.
C14_Witness ==
    /\ FreshHello /\ last.f.chids > MaxChannels /\ last.f.uaid = "u1"
    /\ last.store[1] = StoreCall("DropAll", "u1", "", TRUE)
    /\ Len(last.sent) >= 1 /\ last.sent[1] = HelloReply("hello", 200, "g1")

Notifications(s) == {i \in 1..Len(s) : s[i].t = "notification"}
FetchAlls == {i \in 1..Len(last.store) : last.store[i].op = "FetchAll"}

\* C15: frames are handled one at a time, in the order read: while a frame
\* is being handled nothing of it has been done yet and the frame before
\* it is finished, and a frame is read only from the top of the loop.  The
\* flush of a hello or an ack (one Store.FetchAll, as the last Store call,
\* and at most one notification, as the last write) is part of that frame's
\* handling; a hello's notification comes after its reply, which is the
\* first write.
C15_OneFrameAtATimeInOrder ==
    /\ [](wpc = "handle" => last = NoLast)
    /\ [](last.h \in {"hello", "ack"}
            => /\ wpc = "loop"
               /\ Cardinality(FetchAlls) <= 1
               /\ FetchAlls \subseteq {Len(last.store)}
               /\ Cardinality(Notifications(last.tried)) <= 1
               /\ Notifications(last.tried) # {} => FetchAlls # {}
               /\ last.h = "ack"
                    => Notifications(last.tried) \subseteq {1}
               /\ last.h = "hello"
                    => /\ Notifications(last.tried) \subseteq {2}
                       /\ Notifications(last.tried) # {}
                            => last.tried[1].t = "hello"
                       /\ Notifications(last.sent) # {}
                            => last.sent[1].t = "hello")
    /\ [][(wpc # "handle" /\ wpc' = "handle")
             => wpc = "loop" /\ ~stopped]_vars

\* The client received the hello reply and then the pending updates.
C15_Witness ==
    /\ last.h = "hello" /\ last.err = Nil
    /\ Len(last.sent) = 2
    /\ last.sent[1].t = "hello" /\ last.sent[2].t = "notification"
    /\ wpc = "loop"

\* The frame's handling made a bulk flush, and the Store had neither
\* pending updates nor expired channels for the connection's DeviceID.
EmptyBulkFlush ==
    /\ last.h \in {"hello", "ack"}
    /\ \E i \in FetchAlls : last.store[i].ok /\ last.store[i].uaid = Uaid
    /\ Uaid # ""
    /\ last.env.fetch.upd = <<>> /\ last.env.fetch.exp = <<>>

\* C16: a bulk flush that finds nothing writes no frame and returns no
\* error: the ack that made it writes nothing at all, the hello that made
\* it writes its reply and nothing else.
C16_EmptyFlushSendsNothing ==
    EmptyBulkFlush
    => /\ last.err = Nil
       /\ Notifications(last.tried) = {}
       /\ last.h = "ack" => last.tried = <<>>
       /\ last.h = "hello"
            => /\ Len(last.tried) = 1
               /\ last.tried[1].t = "hello" /\ last.tried[1].uaid = Uaid
               /\ last.sent = last.tried

\* A hello on a fresh connection against an empty Store: the client got
\* the reply only.
C16_Witness ==
    /\ EmptyBulkFlush /\ last.h = "hello" /\ last.pre = ""
    /\ last.sent = <<HelloReply("hello", 200, Uaid)>>

\* C17: the idle-hello timer fires once, and when it fires it goes on to
\* close the socket exactly if the connection has no DeviceID at that
\* moment; a connection that has one is not closed by it.
C17_WatchdogClosesIffAnonymous ==
    [][/\ wd # "armed" => wd' # "armed"
       /\ (wd = "armed" /\ wd' # "armed")
            => (wd' = "close" <=> Uaid = "")]_vars

\* Run has returned, the socket is closed and the listener no longer counts
\* the connection.
Reaped ==
    /\ wpc = "done" /\ sockSt[WSock] = "closed"
    /\ removeOnce[WSock] /\ decs[WSock] = 1 /\ conns = 0

\* C18: if the timer fires and the worker keeps running, a connection
\* either gets a DeviceID or is reaped.  The way there: the timer's
\* function, having found no DeviceID, closes the socket; on a closed
\* socket the only step the loop can take is the failing read, which sets
\* stopped; and when Run has returned the socket is closed and the
\* listener's count for the connection released.
C18_AnonymousEventuallyReaped ==
    /\ <>(Uaid # "" \/ Reaped)
    /\ [][(wd = "close" /\ wd' # "close")
             => sockSt'[WSock] = "closed"]_vars
    /\ [][(sockSt[WSock] = "closed" /\ wpc = "loop" /\ ~stopped
              /\ <<wpc, stopped>>' # <<wpc, stopped>>)
             => stopped' /\ wpc' = "loop"]_vars
    /\ [](wpc = "done" => Reaped)

\* A connection that never got a DeviceID was closed by the timer and
\* reaped.
C18_Witness ==
    /\ Reaped /\ Uaid = "" /\ stopped
    /\ wd = "done" /\ closeRet[WSock]

\* C19: when a handler, or the switch's default case, has returned an
\* error, the last thing the worker tried to write is the error envelope
\* (the inbound object with the status and error of that error), stopped
\* is set, and the loop is back at its top, where it will find stopped set
\* and return to Run.
C19_HandlerErrorStops ==
    (last.h \in Commands \cup {"default"} /\ last.err # Nil)
    => /\ stopped
       /\ wpc = "loop"
       /\ Len(last.tried) >= 1
       /\ last.tried[Len(last.tried)] = ErrorReply(last.f.type, last.err)

\* C20: a runtime failure raised inside any of the six handlers is caught
\* by the handler itself and returned to the loop as the invalid-params
\* error, so that handleError runs (it tries the error envelope if the
\* frame is a JSON object) and stopped is set; it does not reach the
\* recover of Run.
C20_HandlerRecoversOwnFailure ==
    last.h = "fault"
    => /\ last.err = ErrInvalidParams
       /\ wpc = "loop"
       /\ stopped
       /\ last.tried = Envelope(last.f, ErrInvalidParams)

\* An ack with a non-empty update list on a connection that has a DeviceID.
GoodAck ==
    /\ last.h = "ack" /\ last.pre # "" /\ last.f.body /\ Len(last.f.upd) > 0

FailedDrops == {i \in 1..Len(last.store) :
                  last.store[i].op = "Drop" /\ ~last.store[i].ok}

\* C22: such an ack calls Store.Drop for the listed updates and then for
\* the expired channels, one call each, in the order listed.  A Drop that
\* fails is the last Store call: no further Drop, no flush, no
\* notification, and its error is returned.  If every Drop succeeds, one
\* bulk flush follows (one Store.FetchAll for the DeviceID), which sends
\* what is pending as one notification frame.
C22_AckDropsThenFlushes ==
    GoodAck =>
       LET chs == last.f.upd \o last.f.exp
           n == Len(last.store)
       IN  /\ \A i \in 1..n :
                 last.store[i].op = "Drop"
                 => /\ i <= Len(chs)
                    /\ last.store[i].chid = chs[i]
                    /\ last.store[i].uaid = last.pre
           /\ IF FailedDrops # {}
              THEN /\ FailedDrops = {n}
                   /\ \A i \in 1..n : last.store[i].op = "Drop"
                   /\ last.err = ErrStore
                   /\ Notifications(last.tried) = {}
              ELSE /\ n = Len(chs) + 1
                   /\ \A i \in 1..Len(chs) : last.store[i].op = "Drop"
                   /\ FetchAlls = {n}
                   /\ last.store[n].uaid = last.pre
                   /\ last.err = (IF last.store[n].ok THEN Nil ELSE ErrStore)
                   /\ Cardinality(Notifications(last.tried)) <= 1
                   /\ (last.store[n].ok
                         /\ (last.env.fetch.upd # <<>>
                               \/ last.env.fetch.exp # <<>>))
                        => last.tried = <<FlushReply(last.env.fetch.upd,
                                                     last.env.fetch.exp)>>

\* Both updates were dropped, the Drop of the expired channel failed.
C22_Witness ==
    /\ GoodAck /\ last.f.upd = <<"c1", "c2">> /\ last.f.exp = <<"c3">>
    /\ FailedDrops = {3} /\ Len(last.store) = 3
    /\ last.err = ErrStore /\ stopped

Rejected == {"badpayload", "undecodable"}

\* C24: a non-empty frame that isPingBody rejects as bad payload, or whose
\* header does not decode, sets stopped and reaches no handler (no Store or
\* Router call, the DeviceID as it was); the only frame ever attempted for it
\* is the unknown-command envelope of the header type-error case, and nothing
\* is sent for a bad payload or a syntax error.
C24_RejectedFramesStop ==
    /\ (last.h # "none" /\ Route(last.f) \in Rejected) => last.h = Route(last.f)
    /\ last.h \in Rejected =>
          /\ Len(last.f.raw) > 0
          /\ Route(last.f) = last.h
          /\ stopped
          /\ last.store = <<>> /\ last.router = <<>> /\ last.err = Nil
          /\ Uaid = last.pre
          /\ last.tried # <<>> =>
                /\ last.h = "undecodable" /\ last.f.hdr = "type"
                /\ last.tried = <<ErrorReply(last.f.type, ErrUnknownCommand)>>
          /\ (last.h = "undecodable" /\ last.f.hdr = "type"
                 /\ last.f.json = "object") => last.tried # <<>>
          /\ (last.h = "badpayload" \/ last.f.hdr = "syntax") => last.sent = <<>>

\* a header with a field of the wrong type was answered with the
\* unknown-command envelope and stopped the loop
C24_Witness ==
    /\ last.h = "undecodable" /\ last.f.hdr = "type"
    /\ last.sent = <<ErrorReply("", ErrUnknownCommand)>>
    /\ stopped

\* C25: a register on a connection with a DeviceID and a well-formed
\* channelID makes one Store.Register call for that DeviceID and channel; if
\* it fails the Router is not called, no register reply is tried, the Store's
\* error is returned, its envelope is tried and the loop is stopped; if it
\* succeeds the Router gets REGIS exactly once and the reply tried is the
\* register reply with status 200, whatever status the Router returned.
C25_RegisterStoreThenRouter ==
    (last.h = "register" /\ last.pre # "" /\ last.f.body
       /\ Valid(last.f.chid)) =>
        /\ Len(last.store) = 1
        /\ last.store[1] = StoreCall("Register", last.pre, last.f.chid,
                                     last.store[1].ok)
        /\ ~last.store[1].ok =>
              /\ last.router = <<>>
              /\ last.err = ErrStore
              /\ last.tried = <<ErrorReply(last.f.type, ErrStore)>>
              /\ stopped
        /\ last.store[1].ok =>
              /\ last.router = <<RouterCall("REGIS", last.pre, last.f.chid)>>
              /\ last.err = Nil
              /\ last.tried = <<RegisterReply(last.f.type, last.pre,
                                              last.f.chid)>>
              /\ last.tried[1].status = 200

\* the Router answered REGIS with 503 and the client was sent status 200
C25_Witness ==
    /\ last.h = "register" /\ last.env.status = 503
    /\ last.router = <<RouterCall("REGIS", last.pre, last.f.chid)>>
    /\ Len(last.sent) = 1 /\ last.sent[1].t = "register"
    /\ last.sent[1].status = 200

\* C26: every hello reply written to the socket carries a non-empty uaid
\* that is the connection's DeviceID, and a hello that returned no error
\* leaves the connection with a non-empty DeviceID, also when the device was
\* reset and id.Generate reported an error.
C26_HelloReplyCarriesDeviceID ==
    last.h = "hello" =>
        /\ \A i \in 1..Len(last.sent) :
              last.sent[i].t = "hello" =>
                  last.sent[i].uaid # "" /\ last.sent[i].uaid = Uaid
        /\ last.err = Nil => Uaid # ""

\* C23: the Worker's state is Active exactly when its connection has a
\* DeviceID: Inactive from creation until a hello has bound one, Active
\* from then on.
C23_ActiveIffBound ==
    /\ state \in {WorkerInactive, WorkerActive}
    /\ state = WorkerActive <=> Uaid # ""

(***************************************************************************)
(* Claims about isPingBody                                                 *)
(***************************************************************************)
Count(s, b) == Cardinality({i \in 1..Len(s) : s[i] = b})
OnlyBracesAndSpace(s) == \A i \in 1..Len(s) : s[i] \in {"{", "}"} \cup Whitespace

\* C21: for a frame of at least one byte, isPingBody answers (ping, no
\* error) if the frame has only braces and white space, as many "{" as "}"
\* and at most one "{"; it answers the bad-payload error exactly if the
\* frame has two bytes or more, only braces and white space, and brace
\* counts that differ or exceed one; it answers (no ping, no error) if a
\* frame of two bytes or more has any other byte.
C21_ClassifierCases ==
    pingOut.called =>
       LET l == Count(pingRaw, "{")
           r == Count(pingRaw, "}")
           only == OnlyBracesAndSpace(pingRaw)
       IN  /\ (only /\ l = r /\ l <= 1)
                => pingOut.ping /\ pingOut.err = Nil
           /\ pingOut.err = ErrBadPayload
                <=> (Len(pingRaw) >= 2 /\ only /\ (l # r \/ l > 1 \/ r > 1))
           /\ (Len(pingRaw) >= 2 /\ ~only)
                => ~pingOut.ping /\ pingOut.err = Nil
           /\ pingOut.err \in {Nil, ErrBadPayload}
           /\ pingOut.err = ErrBadPayload => ~pingOut.ping

\* Two nested empty objects: balanced, but more than one "{".
C21_Witness ==
    /\ pingOut.called /\ pingRaw = <<"{", "{", "}", "}">>
    /\ ~pingOut.ping /\ pingOut.err = ErrBadPayload

=============================================================================
